---- MODULE Spec2Model ----
(***************************************************************************)
(* Dictionary-encoded categorical columns of polars-core:                  *)
(* crates/polars-core/src/chunked_array/logical/categorical/mod.rs         *)
(*                                                                         *)
(* A CategoricalChunked is a physical UInt32 array (values, chunk count,   *)
(* sorted flag), a logical dtype (Categorical or Enum, carrying a reverse  *)
(* mapping and an ordering) and the ORIGINAL bit of its BitSettings.       *)
(* The operations are modelled as operators on such a column; the actions  *)
(* call them on the column `ca` and leave the returned value in `ret`.     *)
(***************************************************************************)
EXTENDS Integers, Sequences, FiniteSets, TLC

VARIABLES ca, ret, op, cache, enabled

vars == <<ca, ret, op, cache, enabled>>

(***************************************************************************)
(* Bounds of the model.                                                    *)
(***************************************************************************)
MaxLen == 2

\* The strings that occur as categories.
AllStr == <<"a", "b">>
Strs == {AllStr[i] : i \in DOMAIN AllStr}

\* A null slot of the physical array (Option<u32>::None).
NULL == -1
\* A null row of a string column.
NullStr == "NULL"

Orderings == {"Physical", "Lexical"}
IsSorted == {"Not", "Asc", "Desc"}

Range(s) == {s[i] : i \in DOMAIN s}

Distinct(s) == \A i, j \in DOMAIN s : i # j => s[i] # s[j]

\* Category sequences: the categories of a dictionary are distinct.
CatSeqs == {s \in UNION {[1..n -> Strs] : n \in 0..Len(AllStr)} : Distinct(s)}

PhysSeqs(codes) == UNION {[1..k -> codes \cup {NULL}] : k \in 0..MaxLen}

(***************************************************************************)
(* Reverse mapping (revmap.rs).                                            *)
(***************************************************************************)
StrCode(s) == CHOOSE i \in DOMAIN AllStr : AllStr[i] = s

RECURSIVE Hash(_)
\* Content hash of a category sequence: a positional encoding, so that two
\* sequences have the same hash exactly when they are equal.
Hash(cats) ==
    IF cats = <<>> THEN 1
    ELSE Hash(SubSeq(cats, 1, Len(cats) - 1)) * (Len(AllStr) + 1) + StrCode(cats[Len(cats)])

Local(cats, hash) ==
    [kind |-> "Local", map |-> {}, cats |-> cats, hash |-> hash]

\* map is the code_to_local_index table, a set of <<cache code, local position>>.
\* The third field of the variant, the uuid of the cache, is read by none of
\* the operations below and is left out.
Global(map, cats) ==
    [kind |-> "Global", map |-> map, cats |-> cats, hash |-> 0]

NoneRev == [kind |-> "None", map |-> {}, cats |-> <<>>, hash |-> 0]

build_local(cats) == Local(cats, Hash(cats))

get_categories(rev) == rev.cats

Keys(map) == {p[1] : p \in map}

MapGet(map, k) == (CHOOSE p \in map : p[1] = k)[2]

\* RevMapping::get / get_unchecked: code -> category.
RevGet(rev, idx) ==
    IF rev.kind = "Global"
    THEN rev.cats[MapGet(rev.map, idx) + 1]
    ELSE rev.cats[idx + 1]

(***************************************************************************)
(* The physical array (UInt32Chunked): values, chunks, sorted flag.        *)
(***************************************************************************)
Array(vals, nchunks, sorted) == [vals |-> vals, nchunks |-> nchunks, sorted |-> sorted]

len(arr) == Len(arr.vals)

null_count(arr) == Cardinality({i \in DOMAIN arr.vals : arr.vals[i] = NULL})

has_nulls(arr) == null_count(arr) > 0

\* ChunkedArray::apply: a new array of the mapped values, chunk by chunk,
\* without the flags.
apply(arr, mapped) == Array(mapped, arr.nchunks, "Not")

\* FromIterator for ChunkedArray: one chunk, no flags.
collect(vals) == Array(vals, 1, "Not")

set_sorted_flag(arr, sorted) == [arr EXCEPT !.sorted = sorted]

(***************************************************************************)
(* DataType.                                                               *)
(***************************************************************************)
Categorical(rev, ordering) == [tag |-> "Categorical", rev_map |-> rev, ordering |-> ordering]
Enum(rev, ordering) == [tag |-> "Enum", rev_map |-> rev, ordering |-> ordering]
String == [tag |-> "String", rev_map |-> NoneRev, ordering |-> "Physical"]
UInt32 == [tag |-> "UInt32", rev_map |-> NoneRev, ordering |-> "Physical"]

(***************************************************************************)
(* CategoricalChunked.                                                     *)
(***************************************************************************)
Column(physical, dtype, bit) ==
    [physical |-> physical, dtype |-> dtype, bit_settings |-> bit]

is_enum(c) == c.dtype.tag = "Enum"

get_rev_map(c) == c.dtype.rev_map

get_ordering(c) == c.dtype.ordering

uses_lexical_ordering(c) == get_ordering(c) = "Lexical"

\* The constructor starting from the ORIGINAL bit set.
from_cats_and_rev_map_original(idx, rev_map, isEnum, ordering) ==
    Column(idx,
           IF isEnum THEN Enum(rev_map, ordering) ELSE Categorical(rev_map, ordering),
           TRUE)

from_cats_and_rev_map_unchecked(idx, rev_map, isEnum, ordering) ==
    Column(idx,
           IF isEnum THEN Enum(rev_map, ordering) ELSE Categorical(rev_map, ordering),
           FALSE)

_can_fast_unique(c) ==
    /\ c.bit_settings
    /\ c.physical.nchunks = 1
    /\ null_count(c.physical) = 0

set_fast_unique(c, toggle) == [c EXCEPT !.bit_settings = toggle]

set_ordering(c, ordering, keep_fast_unique) ==
    LET d == IF c.dtype.tag = "Enum"
             THEN Enum(get_rev_map(c), ordering)
             ELSE Categorical(get_rev_map(c), ordering)
        c1 == [c EXCEPT !.dtype = d]
    IN  IF ~keep_fast_unique THEN set_fast_unique(c1, FALSE) ELSE c1

\* The new dtype built with the default ordering instead of get_ordering().
set_rev_map_default_ordering(c, rev_map, keep_fast_unique) ==
    LET d == IF c.dtype.tag = "Enum"
             THEN Enum(rev_map, "Physical")
             ELSE Categorical(rev_map, "Physical")
        c1 == [c EXCEPT !.dtype = d]
    IN  IF ~keep_fast_unique THEN set_fast_unique(c1, FALSE) ELSE c1

set_rev_map(c, rev_map, keep_fast_unique) ==
    LET d == IF c.dtype.tag = "Enum"
             THEN Enum(rev_map, get_ordering(c))
             ELSE Categorical(rev_map, get_ordering(c))
        c1 == [c EXCEPT !.dtype = d]
    IN  IF ~keep_fast_unique THEN set_fast_unique(c1, FALSE) ELSE c1

\* The remap skipped for a code that already is a position of the categories.
to_local_remap_skip(physical_map, v) ==
    IF v = NULL THEN NULL
    ELSE IF v < Cardinality(physical_map) THEN v
    ELSE MapGet(physical_map, v)

to_local_remap(physical_map, v) ==
    IF v = NULL THEN NULL ELSE MapGet(physical_map, v)

to_local(c) ==
    LET rev_map == get_rev_map(c) IN
    IF rev_map.kind = "Local" /\ ~is_enum(c) THEN c
    ELSE IF rev_map.kind = "Local"
    THEN [c EXCEPT !.dtype = Categorical(rev_map, get_ordering(c))]
    ELSE LET local_rev_map == build_local(rev_map.cats)
             local_ca == apply(c.physical,
                               [i \in DOMAIN c.physical.vals |->
                                   to_local_remap(rev_map.map, c.physical.vals[i])])
             out == from_cats_and_rev_map_unchecked(local_ca, local_rev_map, FALSE,
                                                    get_ordering(c))
         IN  set_fast_unique(out, _can_fast_unique(c))

(***************************************************************************)
(* Global string cache (string_cache.rs): the strings in insertion order;  *)
(* the code of a string is its position.                                   *)
(***************************************************************************)
CodeOf(c, s) == (CHOOSE i \in DOMAIN c : c[i] = s) - 1

cache_insert(c, s) == IF s \in Range(c) THEN c ELSE Append(c, s)

RECURSIVE InternAll(_, _)
InternAll(c, cats) ==
    IF cats = <<>> THEN c
    ELSE InternAll(cache_insert(c, Head(cats)), Tail(cats))

using_string_cache(en) == en

\* builder.rs: intern the categories, turn every local position into its
\* cache code and build the code -> local position table.
from_keys_and_values_global(keys, values, ordering, c) ==
    LET c2 == InternAll(c, values)
        local_to_global == [i \in DOMAIN values |-> CodeOf(c2, values[i])]
        global_to_local == {<<local_to_global[i], i - 1>> : i \in DOMAIN values}
        cats == [i \in DOMAIN keys.vals |->
                    IF keys.vals[i] = NULL THEN NULL ELSE local_to_global[keys.vals[i] + 1]]
    IN  [ca |-> from_cats_and_rev_map_unchecked(collect(cats),
                                                Global(global_to_local, values),
                                                FALSE, ordering),
         cache |-> c2]

(***************************************************************************)
(* Values returned by the operations.                                      *)
(***************************************************************************)
NoCol == Column(Array(<<>>, 1, "Not"), Categorical(NoneRev, "Physical"), FALSE)

Ok(c) == [tag |-> "Ok", ca |-> c, strs |-> <<>>, ints |-> <<>>, err |-> ""]
OkStr(s) == [tag |-> "Str", ca |-> NoCol, strs |-> s, ints |-> <<>>, err |-> ""]
OkU32(s) == [tag |-> "U32", ca |-> NoCol, strs |-> <<>>, ints |-> s, err |-> ""]
Err(e) == [tag |-> "Err", ca |-> NoCol, strs |-> <<>>, ints |-> <<>>, err |-> e]
Unit == [tag |-> "Unit", ca |-> NoCol, strs |-> <<>>, ints |-> <<>>, err |-> ""]

\* A call's outcome: the returned value and the string cache after the call.
Outcome(r, c) == [ret |-> r, cache |-> c]

\* to_global without the polars_ensure on the string cache.
to_global_no_ensure(c, en, sc) ==
    IF get_rev_map(c).kind = "Global" THEN Outcome(Ok(c), sc)
    ELSE LET g == from_keys_and_values_global(c.physical, get_rev_map(c).cats,
                                              get_ordering(c), sc)
         IN  Outcome(Ok(g.ca), g.cache)

to_global(c, en, sc) ==
    IF ~using_string_cache(en) THEN Outcome(Err("string_cache_mismatch"), sc)
    ELSE IF get_rev_map(c).kind = "Global" THEN Outcome(Ok(c), sc)
    ELSE LET g == from_keys_and_values_global(c.physical, get_rev_map(c).cats,
                                              get_ordering(c), sc)
         IN  Outcome(Ok(g.ca), g.cache)

(***************************************************************************)
(* to_enum.                                                                *)
(***************************************************************************)
\* old category -> position in the old categories (a later duplicate wins).
old_idx_map(old_categories, s) ==
    (CHOOSE i \in DOMAIN old_categories :
        /\ old_categories[i] = s
        /\ \A j \in DOMAIN old_categories : old_categories[j] = s => j <= i) - 1

\* old idx -> new idx, for every new category that is also an old category.
idx_map(old_categories, categories) ==
    LET pairs == {<<old_idx_map(old_categories, categories[n]), n - 1>> :
                    n \in {m \in DOMAIN categories : categories[m] \in Range(old_categories)}}
    IN  {p \in pairs : \A q \in pairs : q[1] = p[1] => q[2] <= p[2]}

\* A code without an entry kept as it is instead of becoming null.
to_enum_lookup_keep(m, v) ==
    IF v = NULL THEN NULL
    ELSE IF v \in Keys(m) THEN MapGet(m, v)
    ELSE v

to_enum_lookup(m, v) ==
    IF v = NULL THEN NULL
    ELSE IF v \in Keys(m) THEN MapGet(m, v)
    ELSE NULL

to_enum_fast(c) ==
    from_cats_and_rev_map_unchecked(c.physical, get_rev_map(c), TRUE, get_ordering(c))

to_enum_general(c, categories, hash) ==
    LET old_categories == get_categories(get_rev_map(c))
        m == idx_map(old_categories, categories)
        new_phys == collect([i \in DOMAIN c.physical.vals |->
                                to_enum_lookup(m, c.physical.vals[i])])
    IN  from_cats_and_rev_map_unchecked(new_phys, Local(categories, hash), TRUE,
                                        get_ordering(c))

\* The fast path taken for every Local mapping, whatever its hash.
to_enum_is_fast_any_local(c, hash) ==
    get_rev_map(c).kind = "Local"

to_enum_is_fast(c, hash) ==
    get_rev_map(c).kind = "Local" /\ hash = get_rev_map(c).hash

to_enum(c, categories, hash) ==
    IF to_enum_is_fast(c, hash) THEN to_enum_fast(c)
    ELSE to_enum_general(c, categories, hash)

(***************************************************************************)
(* iter_str and cast_with_options.                                         *)
(***************************************************************************)
iter_str(c) ==
    [i \in DOMAIN c.physical.vals |->
        IF c.physical.vals[i] = NULL THEN NullStr
        ELSE RevGet(get_rev_map(c), c.physical.vals[i])]

\* into_no_null_iter + append_value
cast_string_no_null(c) ==
    [i \in DOMAIN c.physical.vals |-> RevGet(get_rev_map(c), c.physical.vals[i])]

\* into_iter + append_option
cast_string_nullable(c) ==
    [i \in DOMAIN c.physical.vals |->
        IF c.physical.vals[i] = NULL THEN NullStr
        ELSE RevGet(get_rev_map(c), c.physical.vals[i])]

\* The null-aware loop appending an empty string for a null.
cast_string_empty_for_null(c) ==
    [i \in DOMAIN c.physical.vals |->
        IF c.physical.vals[i] = NULL THEN ""
        ELSE RevGet(get_rev_map(c), c.physical.vals[i])]

cast_string(c) ==
    IF ~has_nulls(c.physical) THEN cast_string_no_null(c) ELSE cast_string_nullable(c)

\* The Enum arm without the let-else on the Local variant.
cast_enum_any_mapping(c, dtype) ==
    IF dtype.rev_map.kind = "None"
    THEN Err("ComputeError: can not cast to enum without categories present")
    ELSE Ok(set_ordering(to_enum(c, dtype.rev_map.cats, dtype.rev_map.hash),
                         dtype.ordering, TRUE))

cast_enum(c, dtype) ==
    IF dtype.rev_map.kind = "None"
    THEN Err("ComputeError: can not cast to enum without categories present")
    ELSE IF dtype.rev_map.kind # "Local"
    THEN Err("ComputeError: can not cast to enum with global mapping")
    ELSE Ok(set_ordering(to_enum(c, dtype.rev_map.cats, dtype.rev_map.hash),
                         dtype.ordering, TRUE))

cast_categorical_clear_sorted(c1) ==
    IF uses_lexical_ordering(c1)
    THEN [c1 EXCEPT !.physical = set_sorted_flag(c1.physical, "Not")]
    ELSE c1

\* The Categorical arm without its Enum branch.
cast_categorical_no_enum_branch(c, dtype, en, sc) ==
    Outcome(Ok(cast_categorical_clear_sorted(set_ordering(c, dtype.ordering, TRUE))), sc)

cast_categorical(c, dtype, en, sc) ==
    IF c.dtype.tag = "Enum" /\ dtype.rev_map.kind = "None"
    THEN IF using_string_cache(en)
         THEN LET g == to_global(c, en, sc)
              IN  IF g.ret.tag = "Err" THEN g
                  ELSE Outcome(Ok(set_ordering(g.ret.ca, dtype.ordering, TRUE)), g.cache)
         ELSE Outcome(Ok(set_ordering(to_local(c), dtype.ordering, TRUE)), sc)
    ELSE Outcome(Ok(cast_categorical_clear_sorted(set_ordering(c, dtype.ordering, TRUE))), sc)

cast_with_options(c, dtype, en, sc) ==
    CASE dtype.tag = "String" -> Outcome(OkStr(cast_string(c)), sc)
      [] dtype.tag = "UInt32" -> Outcome(OkU32(c.physical.vals), sc)
      [] dtype.tag = "Enum" -> Outcome(cast_enum(c, dtype), sc)
      [] dtype.tag = "Categorical" -> cast_categorical(c, dtype, en, sc)

(***************************************************************************)
(* Columns the builders can produce.                                       *)
(***************************************************************************)
NonNull(vals) == {i \in DOMAIN vals : vals[i] # NULL}

\* A sorted flag is only ever set on values that are in that order.
SortedOk(vals, sorted) ==
    \A i, j \in NonNull(vals) :
        i < j => CASE sorted = "Asc" -> vals[i] <= vals[j]
                   [] sorted = "Desc" -> vals[i] >= vals[j]
                   [] OTHER -> TRUE

Decoded(c) == {RevGet(get_rev_map(c), c.physical.vals[i]) : i \in NonNull(c.physical.vals)}

\* unique(categories) == unique(self), the invariant with_fast_unique asks for.
FastUniqueSound(c) ==
    _can_fast_unique(c) => Decoded(c) = Range(get_rev_map(c).cats)

\* The builders set the ORIGINAL bit on the one-chunk column they finish, in
\* which every category they collected occurs; nulls may occur as well.
BuilderFastUnique(c) ==
    c.physical.nchunks = 1 /\ Decoded(c) = Range(get_rev_map(c).cats)

\* Every non-null index is a key of the column's own reverse mapping and
\* resolves to a category in bounds.
ValidIndices(c) ==
    LET rev == get_rev_map(c) IN
    \A i \in NonNull(c.physical.vals) :
        LET v == c.physical.vals[i] IN
        IF rev.kind = "Global"
        THEN v \in Keys(rev.map) /\ MapGet(rev.map, v) \in 0..(Len(rev.cats) - 1)
        ELSE rev.kind = "Local" /\ v \in 0..(Len(rev.cats) - 1)

Chunks == {1, 2}

ColumnsOver(rev, codes, tags) ==
    {c \in {Column(Array(vals, n, sorted), [tag |-> t, rev_map |-> rev, ordering |-> o], b) :
                vals \in PhysSeqs(codes), n \in Chunks, sorted \in IsSorted,
                t \in tags, o \in Orderings, b \in BOOLEAN} :
        /\ SortedOk(c.physical.vals, c.physical.sorted)
        /\ uses_lexical_ordering(c) => c.physical.sorted = "Not"
        /\ c.physical.nchunks <= IF len(c.physical) = 0 THEN 1 ELSE len(c.physical)
        /\ c.bit_settings => BuilderFastUnique(c)}

LocalColumns ==
    UNION {ColumnsOver(build_local(cats), 0..(Len(cats) - 1), {"Categorical", "Enum"}) :
            cats \in CatSeqs}

\* Categorical columns built while the string cache holds sc.
GlobalColumns(sc) ==
    UNION {LET map == {<<CodeOf(sc, cats[i]), i - 1>> : i \in DOMAIN cats}
           IN  ColumnsOver(Global(map, cats), Keys(map), {"Categorical"}) :
            cats \in {cs \in CatSeqs : Range(cs) \subseteq Range(sc)}}

CacheStates == CatSeqs

\* Reverse mappings a cast target may carry.
AGlobal == Global({<<0, 0>>}, <<AllStr[1]>>)

EnumTargetRevs == {NoneRev, AGlobal} \cup {build_local(cats) : cats \in CatSeqs}

\* The Categorical arm only looks at whether a mapping is given.
CategoricalTargetRevs == {NoneRev, AGlobal, build_local(<<AllStr[1]>>)}

TargetDTypes ==
    {String, UInt32}
        \cup {Enum(r, o) : r \in EnumTargetRevs, o \in Orderings}
        \cup {Categorical(r, o) : r \in CategoricalTargetRevs, o \in Orderings}

\* Reverse mappings a caller may hand to set_rev_map: local ones, and global
\* ones built against the string cache as it is.
RevMapArgs(sc, en) ==
    {build_local(cats) : cats \in CatSeqs}
        \cup (IF en
              THEN {Global({<<CodeOf(sc, cats[i]), i - 1>> : i \in DOMAIN cats}, cats) :
                        cats \in {cs \in CatSeqs : Range(cs) \subseteq Range(sc)}}
              ELSE {})

NoDType == [tag |-> "None", rev_map |-> NoneRev, ordering |-> "Physical"]

Call(name, dtype, categories, hash, ordering, keep) ==
    [name |-> name, dtype |-> dtype, categories |-> categories, hash |-> hash,
     ordering |-> ordering, keep |-> keep]

NoCall(name) == Call(name, NoDType, <<>>, 0, "Physical", FALSE)

(***************************************************************************)
(* The state machine.                                                      *)
(***************************************************************************)
Init ==
    /\ enabled \in BOOLEAN
    /\ cache \in IF enabled THEN CacheStates ELSE {<<>>}
    /\ ca \in LocalColumns \cup (IF enabled THEN GlobalColumns(cache) ELSE {})
    /\ ret = Unit
    /\ op = NoCall("new")

\* No returned value is waiting for the caller.
Idle == ret.tag = "Unit"

ToLocal ==
    /\ Idle
    /\ ret' = Ok(to_local(ca))
    /\ op' = NoCall("to_local")
    /\ UNCHANGED <<ca, cache, enabled>>

ToGlobal ==
    LET g == to_global(ca, enabled, cache) IN
    /\ Idle
    /\ ret' = g.ret
    /\ cache' = g.cache
    /\ op' = NoCall("to_global")
    /\ UNCHANGED <<ca, enabled>>

ToEnum ==
    \E categories \in CatSeqs :
        /\ Idle
        /\ ret' = Ok(to_enum(ca, categories, Hash(categories)))
        /\ op' = Call("to_enum", NoDType, categories, Hash(categories), "Physical", FALSE)
        /\ UNCHANGED <<ca, cache, enabled>>

SetOrdering ==
    \E ordering \in Orderings, keep_fast_unique \in BOOLEAN :
        /\ Idle
        /\ ret' = Ok(set_ordering(ca, ordering, keep_fast_unique))
        /\ op' = Call("set_ordering", NoDType, <<>>, 0, ordering, keep_fast_unique)
        /\ UNCHANGED <<ca, cache, enabled>>

\* set_rev_map works on the column in place. Its callers owe it that the
\* indices are in bounds of the new mapping, that an Enum gets a Local
\* mapping, and that the fast_unique bit is kept only where it stays true.
SetRevMap ==
    \E rev_map \in RevMapArgs(cache, enabled), keep_fast_unique \in BOOLEAN :
        LET c1 == set_rev_map(ca, rev_map, keep_fast_unique) IN
        /\ Idle
        /\ ValidIndices(c1)
        /\ is_enum(ca) => rev_map.kind = "Local"
        /\ keep_fast_unique => FastUniqueSound(c1)
        /\ ca' = c1
        /\ ret' = Unit
        /\ op' = Call("set_rev_map", [NoDType EXCEPT !.rev_map = rev_map], <<>>, 0,
                      "Physical", keep_fast_unique)
        /\ UNCHANGED <<cache, enabled>>

CastWithOptions ==
    \E dtype \in TargetDTypes :
        LET r == cast_with_options(ca, dtype, enabled, cache) IN
        /\ Idle
        /\ ret' = r.ret
        /\ cache' = r.cache
        /\ op' = Call("cast_with_options", dtype, <<>>, 0, "Physical", FALSE)
        /\ UNCHANGED <<ca, enabled>>

\* The caller goes on with the column an operation returned.
Bind ==
    /\ ret.tag = "Ok"
    /\ ca' = ret.ca
    /\ ret' = Unit
    /\ op' = NoCall("bind")
    /\ UNCHANGED <<cache, enabled>>

\* The caller drops the value an operation returned.
Drop ==
    /\ ~Idle
    /\ ret' = Unit
    /\ op' = NoCall("drop")
    /\ UNCHANGED <<ca, cache, enabled>>

enable_string_cache ==
    /\ Idle
    /\ ~enabled
    /\ enabled' = TRUE
    /\ ret' = Unit
    /\ op' = NoCall("enable_string_cache")
    /\ UNCHANGED <<ca, cache>>

\* Disabling drops the interned strings; the next cache is a new one.
disable_string_cache ==
    /\ Idle
    /\ enabled
    /\ enabled' = FALSE
    /\ cache' = <<>>
    /\ ret' = Unit
    /\ op' = NoCall("disable_string_cache")
    /\ UNCHANGED ca

\* Another column's builder interns a string.
InternOther ==
    \E s \in Strs :
        /\ Idle
        /\ enabled
        /\ s \notin Range(cache)
        /\ cache' = Append(cache, s)
        /\ ret' = Unit
        /\ op' = NoCall("intern")
        /\ UNCHANGED <<ca, enabled>>

Next ==
    \/ ToLocal
    \/ ToGlobal
    \/ ToEnum
    \/ SetOrdering
    \/ SetRevMap
    \/ CastWithOptions
    \/ Bind
    \/ Drop
    \/ enable_string_cache
    \/ disable_string_cache
    \/ InternOther

Spec == Init /\ [][Next]_vars

(***************************************************************************)
(* Properties.                                                             *)
(***************************************************************************)
StringCacheMismatch == Err("string_cache_mismatch")

IsComputeError(r) ==
    /\ r.tag = "Err"
    /\ r.err \in {"ComputeError: can not cast to enum with global mapping",
                  "ComputeError: can not cast to enum without categories present"}
    /\ r.ca = NoCol

NullPositions(c) == {i \in DOMAIN c.physical.vals : c.physical.vals[i] = NULL}

PositionOf(categories, s) == (CHOOSE i \in DOMAIN categories : categories[i] = s) - 1

\* C1: to_global called while the string cache is disabled returns the
\* string-cache-mismatch error, produces no column, and leaves the column
\* (indices, reverse mapping, logical type, ordering, fast_unique bit) and
\* the cache as they were.
C1_ToGlobalDisabledFails ==
    [][(op'.name = "to_global" /\ ~enabled)
        => (ret' = StringCacheMismatch /\ ret'.ca = NoCol /\ ca' = ca /\ cache' = cache)]_vars

C1_Witness ==
    /\ op.name = "to_global"
    /\ ~enabled
    /\ ret = StringCacheMismatch
    /\ get_rev_map(ca).kind = "Global"
    /\ len(ca.physical) = MaxLen

\* C2: with the string cache enabled, to_local(to_global(x)) and to_local(x)
\* have the same length, the same null positions and the same decoded string
\* at every row, for every x with valid indices.
C2_GlobalRoundTrip ==
    (op.name = "to_global" /\ enabled /\ ValidIndices(ca))
        => /\ ret.tag = "Ok"
           /\ LET back == to_local(ret.ca)
                  direct == to_local(ca)
              IN  /\ len(back.physical) = len(direct.physical)
                  /\ NullPositions(back) = NullPositions(direct)
                  /\ iter_str(back) = iter_str(direct)

C2_Witness ==
    /\ op.name = "to_global"
    /\ enabled
    /\ ret.tag = "Ok"
    /\ get_rev_map(ca).kind = "Local"
    /\ NullPositions(ca) # {}
    /\ \E i \in NonNull(ca.physical.vals) : ret.ca.physical.vals[i] # ca.physical.vals[i]

\* C3: when to_enum takes the hash-matching fast path, the physical indices
\* it returns (nulls included) are the ones the general lookup path computes
\* for the same source and target categories.
C3_EnumFastPathEquivalence ==
    (op.name = "to_enum" /\ to_enum_is_fast(ca, op.hash))
        => /\ ret.tag = "Ok"
           /\ ret.ca.physical.vals
                = to_enum_general(ca, op.categories, op.hash).physical.vals

C3_Witness ==
    /\ op.name = "to_enum"
    /\ to_enum_is_fast(ca, op.hash)
    /\ Len(op.categories) = 2
    /\ NullPositions(ca) # {}
    /\ \E i \in NonNull(ca.physical.vals) : ca.physical.vals[i] = 1
    /\ ret.ca.physical.vals = ca.physical.vals

\* C4: a cast to Categorical(_, Lexical) of a column whose physical array
\* carries an ascending or descending sorted flag returns a column with the
\* sorted flag cleared.
C4_LexicalCastClearsSorted ==
    (/\ op.name = "cast_with_options"
     /\ op.dtype.tag = "Categorical"
     /\ op.dtype.ordering = "Lexical"
     /\ ca.physical.sorted # "Not")
        => (ret.tag = "Ok" /\ ret.ca.physical.sorted = "Not")

\* C5: every column the operations return, and every column reached by going
\* on with a returned column, has valid indices: each non-null index is a key
\* of the column's own reverse mapping and resolves to a category in bounds.
C5_IndexValidity ==
    /\ ValidIndices(ca)
    /\ ret.tag = "Ok" => ValidIndices(ret.ca)

C5_Witness ==
    /\ op.name = "to_local"
    /\ get_rev_map(ca).kind = "Global"
    /\ \E i \in NonNull(ca.physical.vals) : ca.physical.vals[i] >= Len(get_rev_map(ca).cats)
    /\ ValidIndices(ret.ca)
    /\ get_rev_map(ret.ca).kind = "Local"

ExpectedEnumRow(c, categories, i) ==
    IF c.physical.vals[i] = NULL THEN NULL
    ELSE LET s == RevGet(get_rev_map(c), c.physical.vals[i])
         IN  IF s \in Range(categories) THEN PositionOf(categories, s) ELSE NULL

\* C6: on the general path (the target hash differs from the source's),
\* to_enum returns a column of the same length with the mapping
\* Local(target_categories, target_hash) whose row i is null if the source
\* row is null, the position in target_categories of the string the source
\* row decodes to if there is one, and null otherwise; for Local and Global
\* sources alike.
C6_EnumGeneralPath ==
    (op.name = "to_enum" /\ ~to_enum_is_fast(ca, op.hash) /\ ValidIndices(ca))
        => /\ ret.tag = "Ok"
           /\ len(ret.ca.physical) = len(ca.physical)
           /\ get_rev_map(ret.ca) = Local(op.categories, op.hash)
           /\ \A i \in DOMAIN ca.physical.vals :
                ret.ca.physical.vals[i] = ExpectedEnumRow(ca, op.categories, i)

\* C7: a cast to Enum(Some(Global), _) or Enum(None, _) returns a
\* ComputeError and no column and leaves the source column alone; a cast to
\* Enum(Some(Local), ordering) returns an Enum column with that ordering.
C7_CastToEnum ==
    [][(op'.name = "cast_with_options" /\ op'.dtype.tag = "Enum")
        => /\ ca' = ca
           /\ cache' = cache
           /\ IF op'.dtype.rev_map.kind = "Local"
              THEN /\ ret'.tag = "Ok"
                   /\ ret'.ca.dtype.tag = "Enum"
                   /\ get_ordering(ret'.ca) = op'.dtype.ordering
              ELSE IsComputeError(ret')]_vars

C7_Witness ==
    /\ op.name = "cast_with_options"
    /\ op.dtype.tag = "Enum"
    /\ op.dtype.rev_map.kind = "Global"
    /\ IsComputeError(ret)
    /\ len(ca.physical) = MaxLen

\* C8: a cast of an Enum column to Categorical with no target mapping returns
\* a Categorical column with the requested ordering, whose mapping is Global
\* if the string cache is enabled and Local if not, and which decodes to the
\* same string or null at every row as the source.
C8_EnumToCategorical ==
    (/\ op.name = "cast_with_options"
     /\ op.dtype.tag = "Categorical"
     /\ op.dtype.rev_map.kind = "None"
     /\ is_enum(ca))
        => /\ ret.tag = "Ok"
           /\ ret.ca.dtype.tag = "Categorical"
           /\ get_ordering(ret.ca) = op.dtype.ordering
           /\ get_rev_map(ret.ca).kind = IF enabled THEN "Global" ELSE "Local"
           /\ iter_str(ret.ca) = iter_str(ca)

C8_Witness ==
    /\ op.name = "cast_with_options"
    /\ op.dtype.tag = "Categorical"
    /\ op.dtype.rev_map.kind = "None"
    /\ is_enum(ca)
    /\ enabled
    /\ get_rev_map(ret.ca).kind = "Global"
    /\ get_ordering(ret.ca) # get_ordering(ca)
    /\ \E i \in NonNull(ca.physical.vals) : ret.ca.physical.vals[i] # ca.physical.vals[i]

\* The category a valid index stands for, read off the mapping's tables.
CategoryOf(rev, v) ==
    IF rev.kind = "Global"
    THEN CHOOSE s \in Range(rev.cats) :
            \E p \in rev.map : p[1] = v /\ rev.cats[p[2] + 1] = s
    ELSE CHOOSE s \in Range(rev.cats) : rev.cats[v + 1] = s

\* C9: a cast to String returns a string column of the same length whose row
\* i is null where index i is null and otherwise the category the reverse
\* mapping resolves for it; it equals iter_str() row for row, and on a column
\* without nulls the null-free loop and the null-aware loop agree.
C9_CastToString ==
    (op.name = "cast_with_options" /\ op.dtype.tag = "String" /\ ValidIndices(ca))
        => /\ ret.tag = "Str"
           /\ Len(ret.strs) = len(ca.physical)
           /\ \A i \in DOMAIN ca.physical.vals :
                ret.strs[i] = IF ca.physical.vals[i] = NULL THEN NullStr
                              ELSE CategoryOf(get_rev_map(ca), ca.physical.vals[i])
           /\ ret.strs = iter_str(ca)
           /\ ~has_nulls(ca.physical) => cast_string_no_null(ca) = cast_string_nullable(ca)

C9_Witness ==
    /\ op.name = "cast_with_options"
    /\ op.dtype.tag = "String"
    /\ get_rev_map(ca).kind = "Global"
    /\ NullPositions(ca) # {}
    /\ \E i \in NonNull(ca.physical.vals) :
        /\ ca.physical.vals[i] >= Len(get_rev_map(ca).cats)
        /\ ret.strs[i] \in Strs

\* C10: fast-unique soundness is kept by every sequence of the operations:
\* whenever _can_fast_unique() holds of a column, its distinct non-null values
\* are all the categories of its mapping; to_enum returns the fast_unique bit
\* cleared, and to_local returns _can_fast_unique() as it is on the source.
C10_FastUniqueSoundness ==
    /\ FastUniqueSound(ca)
    /\ ret.tag = "Ok" => FastUniqueSound(ret.ca)
    /\ op.name = "to_enum" => ~ret.ca.bit_settings
    /\ op.name = "to_local" => _can_fast_unique(ret.ca) = _can_fast_unique(ca)

C10_Witness ==
    /\ op.name = "to_local"
    /\ get_rev_map(ca).kind = "Global"
    /\ _can_fast_unique(ca)
    /\ _can_fast_unique(ret.ca)
    /\ Len(get_rev_map(ret.ca).cats) = 2

\* C11: set_ordering(o, keep_fast_unique) changes only the ordering of the
\* logical type: the result has ordering o, the same variant (Categorical or
\* Enum), the same reverse mapping and the same physical array; its
\* fast_unique bit is false when keep_fast_unique is false and the bit before
\* the call when it is true. set_rev_map(m, keep_fast_unique) likewise
\* replaces only the mapping: variant, ordering and physical array stay, and
\* the bit is treated the same way.
C11_SetOrderingSetRevMapFrame ==
    [][/\ op'.name = "set_ordering"
          => /\ ca' = ca
             /\ ret'.tag = "Ok"
             /\ get_ordering(ret'.ca) = op'.ordering
             /\ ret'.ca.dtype.tag = ca.dtype.tag
             /\ get_rev_map(ret'.ca) = get_rev_map(ca)
             /\ ret'.ca.physical = ca.physical
             /\ ret'.ca.bit_settings = (op'.keep /\ ca.bit_settings)
       /\ op'.name = "set_rev_map"
          => /\ get_rev_map(ca') = op'.dtype.rev_map
             /\ ca'.dtype.tag = ca.dtype.tag
             /\ get_ordering(ca') = get_ordering(ca)
             /\ ca'.physical = ca.physical
             /\ ca'.bit_settings = (op'.keep /\ ca.bit_settings)]_vars

C11_Witness ==
    /\ op.name = "set_ordering"
    /\ op.keep
    /\ is_enum(ca)
    /\ ca.bit_settings
    /\ ret.ca.bit_settings
    /\ get_ordering(ca) = "Physical"
    /\ get_ordering(ret.ca) = "Lexical"
    /\ ca.physical.sorted # "Not"
    /\ len(ca.physical) = MaxLen

====
